---------------------------- MODULE Spec2Model ----------------------------
(***************************************************************************)
(* kilroylib 0.4.1: the training example of notebooks/example.ipynb.       *)
(*                                                                         *)
(* MyFace, Model, MyOfflineModule and MyOnlineModule are translated from   *)
(* the notebook.  The offline trainer, the posts loader with its caching   *)
(* dataset, the online trainer with its post generator, and the stop       *)
(* conditions are only imported by the notebook; they are modelled from    *)
(* spec.md (sections 2 and 3).                                             *)
(*                                                                         *)
(* Numbers: Python floats are IEEE-754 binary floating point with          *)
(* round-to-nearest-even.  A float is modelled as <<m, e>>, the number     *)
(* m * 2^e, and every arithmetic operation rounds its exact result to      *)
(* FloatBits significant bits (53 in CPython; bounded here).               *)
(***************************************************************************)
EXTENDS Integers, Sequences, FiniteSets

\* ------------------------------------------------------------------ bounds
\* significant bits of a float (CPython: 53)
FloatBits == 5
\* training runs (trainer.train calls) per session
MaxRuns == 2
\* largest n of MaxEpochs(n) / MaxUpdates(n)
MaxCount == 2
\* largest limit passed to face.scrap
MaxLimit == 3
\* largest batch_size of the PostsLoader
MaxBatch == 3
\* largest n of PostGenerator(n) / sample(n)
MaxSample == 2
\* cap on MyOnlineModule.i (identifiers handed out by sample)
MaxPosts == 4

\* -------------------------------------------------------- float arithmetic
\* A float is <<m, e>>, the number m * 2^e, with m odd, or <<0, 0>> for 0.
Abs(x) == IF x < 0 THEN -x ELSE x

RECURSIVE Pow2(_)
Pow2(k) == IF k = 0 THEN 1 ELSE 2 * Pow2(k - 1)

\* m * 2^e with the factors of two moved into the exponent
RECURSIVE Canon(_, _)
Canon(m, e) ==
    IF m = 0 THEN <<0, 0>>
    ELSE IF m % 2 = 0 THEN Canon(m \div 2, e + 1)
    ELSE <<m, e>>

Zero == <<0, 0>>
One == <<1, 0>>
Half == <<1, -1>>
FromInt(k) == Canon(k, 0)
Neg(a) == <<-a[1], a[2]>>

\* exponents further apart than this: the smaller number is below a quarter
\* of the last place of the larger one
Far == 2 * FloatBits + 2

\* the exact sum a + b, for a and b not Far apart
Plus(a, b) ==
    LET e == IF a[2] < b[2] THEN a[2] ELSE b[2]
    IN  Canon(a[1] * Pow2(a[2] - e) + b[1] * Pow2(b[2] - e), e)

\* the sign of a - b: -1, 0 or 1
Cmp(a, b) ==
    IF a = b THEN 0
    ELSE IF a[1] = 0 THEN (IF b[1] > 0 THEN -1 ELSE 1)
    ELSE IF b[1] = 0 THEN (IF a[1] > 0 THEN 1 ELSE -1)
    ELSE IF (a[1] > 0) # (b[1] > 0) THEN (IF a[1] > 0 THEN 1 ELSE -1)
    ELSE IF a[2] - b[2] > Far THEN (IF a[1] > 0 THEN 1 ELSE -1)
    ELSE IF b[2] - a[2] > Far THEN (IF b[1] > 0 THEN -1 ELSE 1)
    ELSE LET d == Plus(a, Neg(b)) IN IF d[1] > 0 THEN 1 ELSE -1

RLe(a, b) == Cmp(a, b) <= 0
RLt(a, b) == Cmp(a, b) < 0

\* round the positive rational (n/d) * 2^e to FloatBits significant bits,
\* ties to even
RECURSIVE RoundPos(_, _, _)
RoundPos(n, d, e) ==
    IF n \div Pow2(FloatBits - 1) < d THEN RoundPos(2 * n, d, e - 1)
    ELSE IF n \div Pow2(FloatBits) >= d THEN RoundPos(n, 2 * d, e + 1)
    ELSE LET q == n \div d
             r == n % d
             m == IF 2 * r > d \/ (2 * r = d /\ q % 2 = 1) THEN q + 1 ELSE q
         IN  Canon(m, e)

\* the float nearest to (n/d) * 2^e, d > 0
Fl(n, d, e) ==
    IF n = 0 THEN Zero
    ELSE IF n > 0 THEN RoundPos(n, d, e)
    ELSE Neg(RoundPos(-n, d, e))

\* float +, -, *, /: the exact result, rounded
FAdd(a, b) ==
    IF a[1] = 0 THEN b
    ELSE IF b[1] = 0 THEN a
    ELSE IF a[2] - b[2] > Far THEN a
    ELSE IF b[2] - a[2] > Far THEN b
    ELSE LET s == Plus(a, b) IN Fl(s[1], 1, s[2])
FSub(a, b) == FAdd(a, Neg(b))
FMul(a, b) == Fl(a[1] * b[1], 1, a[2] + b[2])
FDiv(a, b) ==
    IF b[1] < 0 THEN Fl(-a[1], -b[1], a[2] - b[2])
    ELSE Fl(a[1], b[1], a[2] - b[2])

\* sum(it): left to right from the int 0
RECURSIVE FSum(_)
FSum(it) ==
    IF it = <<>> THEN Zero
    ELSE FAdd(FSum(SubSeq(it, 1, Len(it) - 1)), it[Len(it)])

\* def mean(it): return sum(it) / len(it)      (len(it) > 0)
mean(it) == FDiv(FSum(it), FromInt(Len(it)))

\* int(x) of a bool x
BoolInt(x) == IF x THEN 1 ELSE 0

\* a finite map (a Python dict) is a function on its set of keys
EmptyMap == <<>>
Put(m, k, v) == [x \in (DOMAIN m) \cup {k} |-> IF x = k THEN v ELSE m[x]]

RMin(a, b) == IF RLe(a, b) THEN a ELSE b
RMax(a, b) == IF RLe(a, b) THEN b ELSE a

\* -------------------------------------------------------------------- Model
\* Model.__init__(p=0.5)
DefaultP == Half

\* @p.setter: self._p = max(min(value, 1), 0)
ModelSetP(value) == RMax(RMin(value, One), Zero)

\* ------------------------------------------------------------------- MyFace
\* MyFace.__init__: self.i = 0; self.posts = {}
MyFaceInit == [i |-> 0, posts |-> EmptyMap]

\* default number of scraped posts
ScrapDefault == 100

\* n = limit or 100          (limit None or 0 is falsy; None is modelled as 0)
ScrapN(limit) == IF limit = 0 THEN ScrapDefault ELSE limit

\* the post  i, i % 3 == 0   yielded by scrap
ScrapItem(i) == <<i, i % 3 = 0>>

\* face.scrap(limit): calling an async generator function runs none of its
\* body; the generator object starts suspended before the first statement
ScrapCall(limit) == [pc |-> "new", limit |-> limit, n |-> 0, k |-> 0]
NoGen == [pc |-> "none", limit |-> 0, n |-> 0, k |-> 0]

\* one __anext__ of the scrap generator g on face f:
\* the first one runs  n = limit or 100; self.i = n + 1  and enters the loop;
\* out is <<post>> for a yield and <<>> when the generator is exhausted
ScrapNext(f, g) ==
    LET n == IF g.pc = "new" THEN ScrapN(g.limit) ELSE g.n
        f1 == IF g.pc = "new" THEN [f EXCEPT !.i = n + 1] ELSE f
    IN  IF g.k < n
        THEN [face |-> f1,
              gen |-> [pc |-> "run", limit |-> g.limit, n |-> n, k |-> g.k + 1],
              out |-> <<ScrapItem(g.k)>>]
        ELSE [face |-> f1,
              gen |-> [pc |-> "done", limit |-> g.limit, n |-> n, k |-> g.k],
              out |-> <<>>]

\* (mutant) post returning the advanced counter instead of post_id
MyFacePostReturnsNext(f, data) ==
    [face |-> [i |-> f.i + 1, posts |-> Put(f.posts, f.i, data)],
     ret |-> f.i + 1]

\* MyFace.post(data): post_id = self.i; self.i += 1; self.posts[post_id] = data
MyFacePost(f, data) ==
    [face |-> [i |-> f.i + 1, posts |-> Put(f.posts, f.i, data)],
     ret |-> f.i]

\* (mutant) the scoring scheme with its sign flipped
ScoreOfFlipped(data) == 1 - BoolInt(data) * 2

\* MyFace.score(post_id): int(self.posts[post_id]) * 2 - 1
ScoreOf(data) == BoolInt(data) * 2 - 1
MyFaceScore(f, post_id) == ScoreOf(f.posts[post_id])

\* ---------------------------------------------------------- MyOfflineModule
\* MyOfflineModule.__init__(model, alpha): self.deltas = []
MyOfflineInit(alpha) == [deltas |-> <<>>, alpha |-> alpha]

\* sum(int(post) for post in posts)
RECURSIVE CountTrue(_)
CountTrue(posts) ==
    IF posts = <<>> THEN 0
    ELSE CountTrue(SubSeq(posts, 1, Len(posts) - 1)) + BoolInt(posts[Len(posts)])

\* p_est = sum(int(post) for post in posts) / len(posts)
PEst(posts) == FDiv(FromInt(CountTrue(posts)), FromInt(Len(posts)))

\* (mutant) fit computing the delta and forgetting to append it
MyOfflineFitForgets(m, mp, posts) == [module |-> m, p |-> mp]

\* MyOfflineModule.fit(posts): self.deltas.append(p_est - self.model.p)
\* (reads self.model.p, assigns nothing to it)
MyOfflineFit(m, mp, posts) ==
    [module |-> [m EXCEPT !.deltas = Append(m.deltas, FSub(PEst(posts), mp))],
     p |-> mp]

\* self.model.p + self.alpha * mean(self.deltas), through the p setter
SteppedP(mp, alpha, deltas) == ModelSetP(FAdd(mp, FMul(alpha, mean(deltas))))

\* (mutant) step subtracting the mean delta
MyOfflineStepAway(m, mp) ==
    [module |-> [m EXCEPT !.deltas = <<>>],
     p |-> ModelSetP(FSub(mp, FMul(m.alpha, mean(m.deltas))))]

\* MyOfflineModule.step(): self.model.p = ...; self.deltas = []
MyOfflineStep(m, mp) ==
    [module |-> [m EXCEPT !.deltas = <<>>], p |-> SteppedP(mp, m.alpha, m.deltas)]

\* ----------------------------------------------------------- MyOnlineModule
\* MyOnlineModule.__init__(model, alpha=0.1): the float nearest to 0.1
OnlineAlpha == Fl(1, 10, 0)
MyOnlineInit == [deltas |-> <<>>, alpha |-> OnlineAlpha, posts |-> EmptyMap, i |-> 0]

\* random.choices([True, False], weights=[p, 1 - p], k=n): every list of n
\* values of positive weight
Support(mp) ==
    {x \in BOOLEAN : IF x THEN RLt(Zero, mp) ELSE RLt(Zero, FSub(One, mp))}
Choices(mp, n) == [1..n -> Support(mp)]

\* module.sample(n): a generator object, suspended before its first statement
SampleCall(n) == [pc |-> "new", n |-> n, posts |-> <<>>, k |-> 0]
NoSample == [pc |-> "none", n |-> 0, posts |-> <<>>, k |-> 0]

\* one next() of the sample generator g of module m; draw is what
\* random.choices returns when the body starts.  Resuming after a yield first
\* runs  self.i += 1 ; entering the loop body runs  self.posts[self.i] = post
\* and yields  self.i, post
SampleNext(m, g, draw) ==
    LET posts == IF g.pc = "new" THEN draw ELSE g.posts
        i == IF g.pc = "new" THEN m.i ELSE m.i + 1
    IN  IF g.k < Len(posts)
        THEN [module |-> [m EXCEPT !.i = i, !.posts = Put(m.posts, i, posts[g.k + 1])],
              gen |-> [pc |-> "yielded", n |-> g.n, posts |-> posts, k |-> g.k + 1],
              out |-> <<<<i, posts[g.k + 1]>>>>]
        ELSE [module |-> [m EXCEPT !.i = i],
              gen |-> [pc |-> "done", n |-> g.n, posts |-> posts, k |-> g.k],
              out |-> <<>>]

\* dict(pairs): a later pair of an equal key replaces the value and keeps the
\* key's place
RECURSIVE DictOf(_)
DictOf(pairs) ==
    IF pairs = <<>> THEN <<>>
    ELSE LET d == DictOf(SubSeq(pairs, 1, Len(pairs) - 1))
             kv == pairs[Len(pairs)]
         IN  IF \E j \in 1..Len(d) : d[j][1] = kv[1]
             THEN [j \in 1..Len(d) |-> IF d[j][1] = kv[1] THEN kv ELSE d[j]]
             ELSE Append(d, kv)

\* scores = {self.posts[post_id]: score for post_id, score in scores.items()}
ByContent(m, scores) ==
    DictOf([j \in 1..Len(scores) |-> <<m.posts[scores[j][1]], scores[j][2]>>])

\* delta = sum((int(x) - p) * score for x, score in scores.items()) / len(scores)
OnlineDelta(m, mp, scores) ==
    LET d == ByContent(m, scores)
        terms == [j \in 1..Len(d) |->
                    FMul(FSub(FromInt(BoolInt(d[j][1])), mp), FromInt(d[j][2]))]
    IN  FDiv(FSum(terms), FromInt(Len(d)))

\* (mutant) fit applying its delta to the model at once
MyOnlineFitWritesP(m, mp, scores) ==
    [module |-> [m EXCEPT !.deltas = Append(m.deltas, OnlineDelta(m, mp, scores))],
     p |-> ModelSetP(FAdd(mp, FMul(m.alpha, OnlineDelta(m, mp, scores))))]

\* MyOnlineModule.fit(scores): self.deltas.append(delta)
\* (reads self.model.p, assigns nothing to it)
MyOnlineFit(m, mp, scores) ==
    [module |-> [m EXCEPT !.deltas = Append(m.deltas, OnlineDelta(m, mp, scores))],
     p |-> mp]

\* MyOnlineModule.step(): self.model.p = ...; self.deltas = []
MyOnlineStep(m, mp) ==
    [module |-> [m EXCEPT !.deltas = <<>>], p |-> SteppedP(mp, m.alpha, m.deltas)]

\* ------------------------------------- trainers (modelled from spec.md)
\* MaxEpochs(n) / MaxUpdates(n): the stop condition, queried with the
\* trainer's counter
\* (mutant) a stop condition that is late by one
StopMaxEpochsLate(n, epochs) == epochs > n
StopMaxEpochs(n, epochs) == epochs >= n
StopMaxUpdates(n, updates) == updates >= n

\* the posts loader: the dataset's contents in order, in groups of batch_size;
\* spec.md leaves the handling of a shorter last group open, so both
\* policies (drop it, keep it) are admitted
RECURSIVE Batchify(_, _, _)
Batchify(posts, batch_size, drop_last) ==
    IF posts = <<>> THEN <<>>
    ELSE IF Len(posts) < batch_size
         THEN IF drop_last THEN <<>> ELSE <<posts>>
         ELSE <<SubSeq(posts, 1, batch_size)>>
              \o Batchify(SubSeq(posts, batch_size + 1, Len(posts)),
                          batch_size, drop_last)

\* (mutant) a dataset without cache: every epoch scraps the face again
EpochEndRefetch(t, g, limit) ==
    [tr |-> [t EXCEPT !.pc = "off_load", !.cursor = 1, !.epochs = @ + 1,
                      !.cache = <<>>, !.batches = <<>>],
     gen |-> ScrapCall(limit), starts |-> 1]

\* the caching dataset at the end of an epoch: the next epoch reads the
\* cache again from its start, and no scrap is started
EpochEnd(t, g, limit) ==
    [tr |-> [t EXCEPT !.pc = "off_stop", !.cursor = 1, !.epochs = @ + 1],
     gen |-> g, starts |-> 0]

\* the contents of the cached (identifier, content) posts
Contents(cache) == [j \in 1..Len(cache) |-> cache[j][2]]

\* a trainer outside train(): no training state exists
IdleTrainer ==
    [pc |-> "idle", epochs |-> 0, updates |-> 0, cache |-> <<>>,
     batches |-> <<>>, cursor |-> 1, sampled |-> <<>>, posted |-> <<>>,
     scores |-> <<>>]

\* -------------------------------------------------------------------- state
VARIABLES
    face,      \* MyFace: [i, posts]
    scrapGen,  \* the scrap generator the dataset reads from
    p,         \* Model._p, shared by both modules
    offline,   \* MyOfflineModule: [deltas, alpha]
    online,    \* MyOnlineModule: [deltas, alpha, posts, i]
    gens,      \* sample generator objects, by handle
    cfg,       \* constructor arguments of the two trainers
    tr,        \* the running trainer's position and training state
    hist       \* history of the session (observations only)

vars == <<face, scrapGen, p, offline, online, gens, cfg, tr, hist>>

Handles == {1, 2}

\* Model(p): starting parameters
StartP == {Zero, DefaultP, One}

\* MyOfflineModule(model, alpha): the default 0.001, and 1/2 and 1
OfflineAlphas == {Fl(1, 1000, 0), Half, One}

\* OfflineTrainer(stop_condition=MaxEpochs(max_epochs),
\*                posts_loader=PostsLoader(batch_size, dataset_factory)),
\* with the limit the loader scraps with and its policy for a shorter last
\* group (which only matters when there is one)
OfflineConfigs ==
    {c \in [max_epochs : 1..MaxCount, batch_size : 1..MaxBatch,
            drop_last : BOOLEAN, limit : 1..MaxLimit] :
        c.drop_last => c.limit % c.batch_size # 0}

\* OnlineTrainer(stop_condition=MaxUpdates(max_updates),
\*               generator=PostGenerator(gen_n), scheduler)
OnlineConfigs == [max_updates : 1..MaxCount, gen_n : 1..MaxSample]

\* a trainer whose constructor arguments have not been used yet
NoOffline == [max_epochs |-> 0, batch_size |-> 0, drop_last |-> FALSE, limit |-> 0]
NoOnline == [max_updates |-> 0, gen_n |-> 0]

HistInit ==
    [runs |-> 0, op |-> "init", arg |-> 0, pre |-> Zero, error |-> "none",
     fits |-> 0, stepIn |-> 0, stepFits |-> 0, ests |-> <<>>, stepEsts |-> <<>>,
     queries |-> 0, cycle |-> <<>>, runPostIds |-> {}, postIds |-> <<>>,
     scrapIds |-> {}, faceOverwrite |-> FALSE, scrapStarts |-> 0,
     served |-> <<>>, cur |-> <<>>, final |-> 0, stepMix |-> {},
     yielded |-> {}, sampleDup |-> FALSE, sampleOverwrite |-> FALSE]

Init ==
    /\ face = MyFaceInit
    /\ scrapGen = NoGen
    /\ p \in StartP
    /\ \E a \in OfflineAlphas : offline = MyOfflineInit(a)
    /\ online = MyOnlineInit
    /\ gens = [h \in Handles |-> NoSample]
    /\ cfg = [offline |-> NoOffline, online |-> NoOnline]
    /\ tr = IdleTrainer
    /\ hist = [HistInit EXCEPT !.pre = p]

\* what a new run resets in the history
NewRun(h, op) ==
    [h EXCEPT !.runs = @ + 1, !.op = op, !.pre = p, !.error = "none", !.fits = 0,
              !.ests = <<>>, !.queries = 0, !.cycle = <<>>, !.runPostIds = {},
              !.scrapStarts = 0, !.served = <<>>, !.cur = <<>>]

\* an exception leaves train(): the run is over
Raise(h, op, error) == [h EXCEPT !.op = op, !.error = error]

\* ------------------------------------------------------- offline training
\* offline_trainer.train(module, face): the loader builds the caching
\* dataset over face.scrap(limit)
StartOffline ==
    /\ tr.pc = "idle"
    /\ hist.runs < MaxRuns
    /\ \E c \in OfflineConfigs :
         /\ cfg.offline \in {NoOffline, c}
         /\ cfg' = [cfg EXCEPT !.offline = c]
         /\ scrapGen' = ScrapCall(c.limit)
    /\ tr' = [IdleTrainer EXCEPT !.pc = "off_load"]
    /\ hist' = [NewRun(hist, "scrap_call") EXCEPT !.scrapStarts = 1]
    /\ UNCHANGED <<face, p, offline, online, gens>>

\* the caching dataset reads the next post of the scrap into the cache
OffLoad ==
    /\ tr.pc = "off_load"
    /\ LET r == ScrapNext(face, scrapGen)
       IN  /\ face' = r.face
           /\ scrapGen' = r.gen
           /\ IF r.out # <<>>
              THEN /\ tr' = [tr EXCEPT !.cache = Append(@, r.out[1])]
                   /\ hist' = [hist EXCEPT !.op = "scrap", !.pre = p,
                                           !.scrapIds = @ \cup {r.out[1][1]}]
              ELSE /\ tr' = [tr EXCEPT !.pc = "off_stop",
                                       !.batches = Batchify(Contents(tr.cache),
                                                            cfg.offline.batch_size,
                                                            cfg.offline.drop_last)]
                   /\ hist' = [hist EXCEPT !.op = "scrap_end", !.pre = p]
    /\ UNCHANGED <<p, offline, online, gens, cfg>>

\* the stop condition is queried before an iteration; an epoch of no batch
\* is complete at once
OffStop ==
    /\ tr.pc = "off_stop"
    /\ IF StopMaxEpochs(cfg.offline.max_epochs, tr.epochs)
       THEN /\ tr' = IdleTrainer
            /\ scrapGen' = NoGen
            /\ hist' = [hist EXCEPT !.op = "off_end", !.pre = p,
                                    !.final = tr.epochs]
       ELSE /\ scrapGen' = scrapGen
            /\ hist' = [hist EXCEPT !.op = "off_stop", !.pre = p,
                                    !.queries = IF tr.batches = <<>> THEN 0
                                                ELSE @ + 1]
            /\ IF tr.batches = <<>>
               THEN tr' = [tr EXCEPT !.epochs = @ + 1]
               ELSE tr' = [tr EXCEPT !.pc = "off_fit"]
    /\ UNCHANGED <<face, p, offline, online, gens, cfg>>

\* module.fit(batch) on the next batch of the epoch
OffFit ==
    /\ tr.pc = "off_fit"
    /\ LET batch == tr.batches[tr.cursor]
       IN  IF batch = <<>>
           THEN /\ tr' = IdleTrainer
                /\ UNCHANGED <<offline, p>>
                /\ hist' = [Raise(hist, "off_fit", "ZeroDivisionError")
                              EXCEPT !.pre = p]
           ELSE /\ tr' = [tr EXCEPT !.pc = "off_step"]
                /\ offline' = MyOfflineFit(offline, p, batch).module
                /\ p' = MyOfflineFit(offline, p, batch).p
                /\ hist' = [hist EXCEPT !.op = "off_fit", !.pre = p,
                                        !.fits = @ + 1,
                                        !.ests = Append(@, PEst(batch)),
                                        !.cur = Append(@, batch)]
    /\ UNCHANGED <<face, scrapGen, online, gens, cfg>>

\* module.step(); after the last batch the epoch is complete
OffStep ==
    /\ tr.pc = "off_step"
    /\ IF offline.deltas = <<>>
       THEN /\ tr' = IdleTrainer
            /\ UNCHANGED <<offline, p, scrapGen>>
            /\ hist' = [Raise(hist, "off_step", "ZeroDivisionError")
                          EXCEPT !.pre = p, !.stepIn = 0, !.stepFits = hist.fits]
       ELSE LET r == MyOfflineStep(offline, p)
                last == tr.cursor >= Len(tr.batches)
                nx == IF last THEN EpochEnd(tr, scrapGen, cfg.offline.limit)
                      ELSE [tr |-> [tr EXCEPT !.pc = "off_stop", !.cursor = @ + 1],
                            gen |-> scrapGen, starts |-> 0]
            IN  /\ offline' = r.module
                /\ p' = r.p
                /\ tr' = nx.tr
                /\ scrapGen' = nx.gen
                /\ hist' = [hist EXCEPT !.op = "off_step", !.pre = p,
                                        !.stepIn = Len(offline.deltas),
                                        !.stepFits = hist.fits,
                                        !.stepEsts = hist.ests,
                                        !.scrapStarts = @ + nx.starts,
                                        !.fits = 0, !.ests = <<>>, !.queries = 0,
                                        !.served = IF last THEN Append(@, hist.cur)
                                                   ELSE @,
                                        !.cur = IF last THEN <<>> ELSE @]
    /\ UNCHANGED <<face, online, gens, cfg>>

\* -------------------------------------------------------- online training
\* what a next() of a sample generator adds to the history
Sampled(h, m, r) ==
    IF r.out = <<>> THEN h
    ELSE [h EXCEPT !.yielded = @ \cup {r.out[1][1]},
                   !.sampleDup = @ \/ r.out[1][1] \in h.yielded,
                   !.sampleOverwrite = @ \/ r.out[1][1] \in DOMAIN m.posts]

\* what random.choices may return when the generator body starts
Draws(g) == IF g.pc = "new" THEN Choices(p, g.n) ELSE {<<>>}

\* online_trainer.train(module, face); the run is admitted while the
\* identifiers it will sample stay within MaxPosts
StartOnline ==
    /\ tr.pc = "idle"
    /\ hist.runs < MaxRuns
    /\ \E c \in OnlineConfigs :
         /\ cfg.online \in {NoOnline, c}
         /\ online.i + c.max_updates * c.gen_n <= MaxPosts
         /\ cfg' = [cfg EXCEPT !.online = c]
    /\ tr' = [IdleTrainer EXCEPT !.pc = "on_stop"]
    /\ hist' = NewRun(hist, "on_start")
    /\ UNCHANGED <<face, scrapGen, p, offline, online, gens>>

\* the stop condition is queried before a cycle; a cycle starts with the
\* post generator calling module.sample(n)
OnStop ==
    /\ tr.pc = "on_stop"
    /\ IF StopMaxUpdates(cfg.online.max_updates, tr.updates)
       THEN /\ tr' = IdleTrainer
            /\ gens' = gens
            /\ hist' = [hist EXCEPT !.op = "on_end", !.pre = p,
                                    !.final = tr.updates]
       ELSE /\ tr' = [tr EXCEPT !.pc = "on_generate"]
            /\ gens' = [gens EXCEPT ![1] = SampleCall(cfg.online.gen_n)]
            /\ hist' = [hist EXCEPT !.op = "on_stop", !.pre = p,
                                    !.queries = @ + 1, !.cycle = <<>>]
    /\ UNCHANGED <<face, scrapGen, p, offline, online, cfg>>

\* the post generator takes the next post of the sample, to exhaustion
OnGenerate ==
    /\ tr.pc = "on_generate"
    /\ \E draw \in Draws(gens[1]) :
         LET r == SampleNext(online, gens[1], draw)
         IN  /\ online' = r.module
             /\ IF r.out # <<>>
                THEN /\ gens' = [gens EXCEPT ![1] = r.gen]
                     /\ tr' = [tr EXCEPT !.sampled = Append(@, r.out[1])]
                     /\ hist' = [Sampled(hist, online, r) EXCEPT
                                   !.op = "sample", !.pre = p,
                                   !.cycle = Append(@, "sample")]
                ELSE /\ gens' = [gens EXCEPT ![1] = NoSample]
                     /\ tr' = [tr EXCEPT !.pc = "on_post"]
                     /\ hist' = [hist EXCEPT !.op = "sample_end", !.pre = p]
    /\ UNCHANGED <<face, scrapGen, p, offline, cfg>>

\* face.post(content) of the next sampled post
OnPost ==
    /\ tr.pc = "on_post"
    /\ LET k == Len(tr.posted) + 1
           r == MyFacePost(face, tr.sampled[k][2])
       IN  /\ face' = r.face
           /\ tr' = [tr EXCEPT !.posted = Append(@, <<tr.sampled[k][1], r.ret>>),
                               !.pc = IF k = Len(tr.sampled) THEN "on_score"
                                      ELSE "on_post"]
           /\ hist' = [hist EXCEPT !.op = "post", !.pre = p, !.arg = r.ret,
                                   !.cycle = Append(@, "post"),
                                   !.runPostIds = @ \cup {r.ret},
                                   !.postIds = Append(@, r.ret),
                                   !.faceOverwrite =
                                        @ \/ r.ret \in DOMAIN face.posts]
    /\ UNCHANGED <<scrapGen, p, offline, online, gens, cfg>>

\* face.score(identifier) of the next published post
OnScore ==
    /\ tr.pc = "on_score"
    /\ LET k == Len(tr.scores) + 1
           mid == tr.posted[k][1]
           fid == tr.posted[k][2]
       IN  IF fid \notin DOMAIN face.posts
           THEN /\ tr' = IdleTrainer
                /\ hist' = [Raise(hist, "score", "KeyError") EXCEPT
                              !.pre = p, !.arg = fid]
           ELSE /\ tr' = [tr EXCEPT
                            !.scores = Append(@, <<mid, MyFaceScore(face, fid)>>),
                            !.pc = IF k = Len(tr.posted) THEN "on_fit"
                                   ELSE "on_score"]
                /\ hist' = [hist EXCEPT !.op = "score", !.pre = p, !.arg = fid,
                                        !.cycle = Append(@, "score")]
    /\ UNCHANGED <<face, scrapGen, p, offline, online, gens, cfg>>

\* module.fit(scores), scores keyed by the sampled identifiers
OnFit ==
    /\ tr.pc = "on_fit"
    /\ IF tr.scores = <<>>
       THEN /\ tr' = IdleTrainer
            /\ UNCHANGED <<online, p>>
            /\ hist' = [Raise(hist, "on_fit", "ZeroDivisionError") EXCEPT !.pre = p]
       ELSE IF \E j \in 1..Len(tr.scores) : tr.scores[j][1] \notin DOMAIN online.posts
       THEN /\ tr' = IdleTrainer
            /\ UNCHANGED <<online, p>>
            /\ hist' = [Raise(hist, "on_fit", "KeyError") EXCEPT !.pre = p]
       ELSE /\ tr' = [tr EXCEPT !.pc = "on_step"]
            /\ online' = MyOnlineFit(online, p, tr.scores).module
            /\ p' = MyOnlineFit(online, p, tr.scores).p
            /\ hist' = [hist EXCEPT !.op = "on_fit", !.pre = p, !.fits = @ + 1,
                                    !.cycle = Append(@, "fit")]
    /\ UNCHANGED <<face, scrapGen, offline, gens, cfg>>

\* module.step(): one update is complete
OnStep ==
    /\ tr.pc = "on_step"
    /\ IF online.deltas = <<>>
       THEN /\ tr' = IdleTrainer
            /\ UNCHANGED <<online, p>>
            /\ hist' = [Raise(hist, "on_step", "ZeroDivisionError")
                          EXCEPT !.pre = p, !.stepIn = 0, !.stepFits = hist.fits]
       ELSE LET r == MyOnlineStep(online, p)
            IN  /\ online' = r.module
                /\ p' = r.p
                /\ tr' = [tr EXCEPT !.pc = "on_stop", !.updates = @ + 1,
                                    !.sampled = <<>>, !.posted = <<>>,
                                    !.scores = <<>>]
                /\ hist' = [hist EXCEPT !.op = "on_step", !.pre = p,
                                        !.stepIn = Len(online.deltas),
                                        !.stepFits = hist.fits, !.fits = 0,
                                        !.queries = 0,
                                        !.stepMix = {tr.sampled[j][2] :
                                                       j \in 1..Len(tr.sampled)},
                                        !.cycle = Append(@, "step")]
    /\ UNCHANGED <<face, scrapGen, offline, gens, cfg>>

Next ==
    \/ StartOffline
    \/ OffLoad
    \/ OffStop
    \/ OffFit
    \/ OffStep
    \/ StartOnline
    \/ OnStop
    \/ OnGenerate
    \/ OnPost
    \/ OnScore
    \/ OnFit
    \/ OnStep

\* a session of training runs, one at a time
Spec == Init /\ [][Next]_vars

\* a run is between the call of train() and its return or raise
Running == tr.pc # "idle"

\* a started run is not suspended for ever: train() is awaited.  This is
\* WF_vars(Running /\ Next) with its ENABLED written out as Running, which
\* Progress (below) justifies; no new run is forced to start.
FairSpec == Spec /\ ([]<>(~Running) \/ []<><<Next>>_vars)

\* ----------------------------- sample generators driven by any consumer
\* g = module.sample(n)
CallSample(h, n) ==
    /\ gens[h].pc = "none"
    /\ gens' = [gens EXCEPT ![h] = SampleCall(n)]
    /\ hist' = [hist EXCEPT !.op = "sample_call", !.pre = p]
    /\ UNCHANGED <<face, scrapGen, p, offline, online, cfg, tr>>

\* next(g)
NextSample(h) ==
    /\ gens[h].pc \in {"new", "yielded"}
    /\ online.i < MaxPosts
    /\ \E draw \in Draws(gens[h]) :
         LET r == SampleNext(online, gens[h], draw)
         IN  /\ online' = r.module
             /\ gens' = [gens EXCEPT ![h] = r.gen]
             /\ hist' = [Sampled(hist, online, r) EXCEPT
                           !.op = IF r.out = <<>> THEN "sample_end" ELSE "sample",
                           !.pre = p]
    /\ UNCHANGED <<face, scrapGen, p, offline, cfg, tr>>

\* g is dropped: a generator suspended at its yield is closed there, and the
\* statements after the yield never run
DropSample(h) ==
    /\ gens[h].pc # "none"
    /\ gens' = [gens EXCEPT ![h] = NoSample]
    /\ hist' = [hist EXCEPT !.op = "sample_drop", !.pre = p]
    /\ UNCHANGED <<face, scrapGen, p, offline, online, cfg, tr>>

SampleStep ==
    \/ \E h \in Handles, n \in 1..MaxSample : CallSample(h, n)
    \/ \E h \in Handles : NextSample(h)
    \/ \E h \in Handles : DropSample(h)

SampleSpec == Init /\ [][SampleStep]_vars

\* ================================================================== claims
Stepped(op) == hist.op = op /\ hist.error = "none"

\* C1: in offline training every step call follows exactly one fit call of
\* the same iteration, and finds at least one pending delta.
C1_FitBeforeStep ==
    hist.op = "off_step" => hist.stepFits = 1 /\ hist.stepIn >= 1

\* a second iteration of an epoch is about to start after a first step
C1_Witness ==
    /\ Stepped("off_step")
    /\ hist.stepIn = 1
    /\ tr.cursor = 2
    /\ offline.deltas = <<>>

\* the place of an operation in an online cycle
Rank(op) ==
    CASE op = "sample" -> 1
      [] op = "post" -> 2
      [] op = "score" -> 3
      [] op = "fit" -> 4
      [] op = "step" -> 5

Times(c, op) == Cardinality({j \in 1..Len(c) : c[j] = op})

\* C2: the operations of an online cycle occur in the order sample, post,
\* score, fit, step (a complete cycle has as many posts and scores as
\* samples, one fit and then one step), and every face.score call is given
\* an identifier that a face.post call of the same run returned and that
\* the face holds.
C2_CycleOrder ==
    /\ \A i, j \in 1..Len(hist.cycle) :
         i < j => Rank(hist.cycle[i]) <= Rank(hist.cycle[j])
    /\ Times(hist.cycle, "fit") <= 1
    /\ Times(hist.cycle, "step") <= 1
    /\ Times(hist.cycle, "step") = 1 =>
         /\ Times(hist.cycle, "fit") = 1
         /\ Times(hist.cycle, "sample") >= 1
         /\ Times(hist.cycle, "post") = Times(hist.cycle, "sample")
         /\ Times(hist.cycle, "score") = Times(hist.cycle, "sample")
    /\ hist.op = "score" =>
         /\ hist.error = "none"
         /\ hist.arg \in hist.runPostIds
         /\ hist.arg \in DOMAIN face.posts

\* a complete cycle of two posts
C2_Witness ==
    /\ Stepped("on_step")
    /\ hist.cycle = <<"sample", "sample", "post", "post", "score", "score",
                      "fit", "step">>

C3_Counts ==
    /\ tr.epochs <= cfg.offline.max_epochs
    /\ tr.updates <= cfg.online.max_updates
    /\ tr.pc \in {"off_fit", "off_step"} =>
         hist.queries = 1 /\ tr.epochs < cfg.offline.max_epochs
    /\ tr.pc \in {"on_generate", "on_post", "on_score", "on_fit", "on_step"} =>
         hist.queries = 1 /\ tr.updates < cfg.online.max_updates
    /\ hist.op = "off_end" => ~Running /\ hist.final = cfg.offline.max_epochs
    /\ hist.op = "on_end" => ~Running /\ hist.final = cfg.online.max_updates

\* the positions whose actions are guarded by the position alone and do
\* the arithmetic of fit and step
ArithPcs == {"off_fit", "off_step", "on_fit", "on_step"}

\* a running trainer can always take its next step
Progress == Running => (tr.pc \in ArithPcs \/ ENABLED <<Next>>_vars)

\* C3: a run under MaxEpochs(n) or MaxUpdates(n) terminates; the stop
\* condition is queried once before each iteration, no iteration is begun
\* once it holds, the run ends with exactly n completed epochs (updates),
\* and the counter never exceeds n.
C3_Terminates == [](C3_Counts /\ Progress) /\ (Running ~> ~Running)

\* an offline run has ended after the largest number of epochs
C3_Witness == hist.op = "off_end" /\ hist.final = MaxCount

C5_OnlyStepWritesP == [][p' # p => tr.pc \in {"off_step", "on_step"}]_vars

\* a step has changed p after a fit that left it alone
C5_Witness == Stepped("on_step") /\ hist.pre # p

\* C6: in an offline run the caching dataset starts face.scrap once, and
\* every epoch is served the same batches of posts in the same order.
C6_ScrapOnce ==
    /\ hist.scrapStarts <= 1
    /\ \A e \in 1..Len(hist.served) : hist.served[e] = hist.served[1]
    /\ tr.pc \in {"off_stop", "off_fit", "off_step"} =>
         /\ hist.scrapStarts = 1
         /\ \A e \in 1..Len(hist.served) : hist.served[e] = tr.batches
         /\ \A j \in 1..Len(tr.cache) : tr.cache[j] = ScrapItem(j - 1)

\* a second epoch has been served, of more than one batch
C6_Witness ==
    /\ Len(hist.served) = 2
    /\ Len(hist.served[2]) >= 2
    /\ hist.scrapStarts = 1

\* C8: an online step leaves p greater than or equal to its value before.
C8_StepUp == Stepped("on_step") => RLe(hist.pre, p)

\* a step after a fit on scores of both True and False posts has raised p
C8_Witness ==
    /\ Stepped("on_step")
    /\ hist.stepMix = {TRUE, FALSE}
    /\ RLt(hist.pre, p)

\* k * a, exactly
Scale(a, k) == Canon(a[1] * k, a[2])

\* the exact sum of the batch estimates fitted before the last offline step
RECURSIVE Sum(_)
Sum(it) ==
    IF it = <<>> THEN Zero ELSE Plus(Sum(SubSeq(it, 1, Len(it) - 1)), it[Len(it)])

EstSum == Sum(hist.stepEsts)
EstLen == Len(hist.stepEsts)

\* p has not moved away from the mean of the estimates
Toward ==
    /\ RLe(Scale(hist.pre, EstLen), EstSum) => RLe(hist.pre, p)
    /\ RLe(EstSum, Scale(hist.pre, EstLen)) => RLe(p, hist.pre)

\* p has not passed the mean of the estimates
NotPast ==
    /\ RLe(Scale(hist.pre, EstLen), EstSum) => RLe(Scale(p, EstLen), EstSum)
    /\ RLe(EstSum, Scale(hist.pre, EstLen)) => RLe(EstSum, Scale(p, EstLen))

\* four units of rounding: 2^(2 - FloatBits)
Slack == <<1, 2 - FloatBits>>

\* p is within Slack of the mean of the estimates
WithinSlack ==
    /\ RLe(Scale(p, EstLen), Plus(EstSum, Scale(Slack, EstLen)))
    /\ RLe(Plus(EstSum, Neg(Scale(Slack, EstLen))), Scale(p, EstLen))

InRange == RLe(Zero, p) /\ RLe(p, One)

\* C9 as stated: after an offline step the new p lies between the old p and
\* the mean of the fitted batch estimates, and p is within [0, 1].
C9_Between == InRange /\ (Stepped("off_step") => Toward /\ NotPast)

\* C9: after an offline step the new p has not moved away from the mean of
\* the fitted batch estimates, it has passed that mean by no more than the
\* rounding of the float operations (2^(2 - FloatBits)), and p is within
\* [0, 1].
C9_Towards ==
    InRange /\ (Stepped("off_step") => Toward /\ (NotPast \/ WithinSlack))

\* an offline step with alpha < 1 has moved p strictly between the old p
\* and the estimate
C9_Witness ==
    /\ Stepped("off_step")
    /\ offline.alpha = Half
    /\ hist.pre # p
    /\ EstSum # Scale(p, EstLen)
    /\ NotPast

\* C10: no identifier is yielded twice by the sample generators of a
\* module, and no entry of the module's posts map is overwritten.
C10_DistinctSamples == ~hist.sampleDup /\ ~hist.sampleOverwrite

=============================================================================
